---- MODULE Spec2Model ----
(***************************************************************************)
(* Model of orbtk_base/src/localization/mod.rs: LocalizationBuilder,       *)
(* Localization and the conversions into Localization.                     *)
(*                                                                         *)
(* A Rust String is modelled as a sequence of tokens, so that a language   *)
(* key, a word key, a translated word and a dictionary blob are all values *)
(* of one type (the conversions of lines 85-110 pass a blob where a        *)
(* language key is expected).  A HashMap is a function on its key set.     *)
(***************************************************************************)
EXTENDS Integers, Sequences, FiniteSets, TLC

\* Bound on the number of chained builder calls before build().
MaxCalls == 3

----------------------------------------------------------------------------
\* Strings

Str(t) == <<t>>
EmptyString == <<>>

DE == Str("de_DE")
EN == Str("en_US")
FR == Str("fr_FR")

Open == "Dictionary(words:{"
Close == "})"

\* The text of one `"key": "value",` entry of a blob.
Entry(k, v) == <<k, ":", v, ",">>

\* The blob of tests::test_text.
BlobDe == <<Open>> \o Entry("hello", "Hallo") \o Entry("world", "Welt") \o <<Close>>
\* The same words written in the other order.
BlobDeRev == <<Open>> \o Entry("world", "Welt") \o Entry("hello", "Hallo") \o <<Close>>
BlobEn == <<Open>> \o Entry("hello", "Hello") \o <<Close>>

Blobs == {BlobDe, BlobEn}
PairBlobs == {BlobDe, BlobDeRev, BlobEn}
LanguageKeys == {DE, EN}
BuilderLanguageArgs == {DE, FR}
SetLanguageArgs == {DE, EN, FR}
PairKeys == LanguageKeys \cup {BlobEn}
TextKeys == {Str("hello"), Str("world"), Str("test")}

----------------------------------------------------------------------------
\* Dictionary (dictionary.rs)

RECURSIVE ParseWords(_, _)
ParseWords(tokens, acc) ==
    IF Len(tokens) < 4
    THEN acc
    ELSE ParseWords(SubSeq(tokens, 5, Len(tokens)),
                    (Str(tokens[1]) :> Str(tokens[3])) @@ acc)

\* Dictionary::from(&str): the words of the blob, as a map.
DictionaryFrom(blob) ==
    [words |-> ParseWords(SubSeq(blob, 2, Len(blob) - 1), <<>>)]

----------------------------------------------------------------------------
\* HashMap

HashMapInsert(map, key, value) ==
    [k \in DOMAIN map \cup {key} |-> IF k = key THEN value ELSE map[k]]

HashMapContains(map, key) == key \in DOMAIN map

----------------------------------------------------------------------------
\* LocalizationBuilder

BuilderDefault == [language |-> EmptyString, dictionaries |-> <<>>]

\* Faulty variant: keeps the dictionary already stored under the key.
BuilderDictionaryKeepsFirst(self, key, dictionary) ==
    IF HashMapContains(self.dictionaries, key)
    THEN self
    ELSE [self EXCEPT !.dictionaries = HashMapInsert(@, key, DictionaryFrom(dictionary))]

\* Faulty variant: adding a dictionary also selects its language.
BuilderDictionarySetsLanguage(self, key, dictionary) ==
    [self EXCEPT !.dictionaries = HashMapInsert(@, key, DictionaryFrom(dictionary)),
                 !.language = key]

BuilderDictionary(self, key, dictionary) ==
    [self EXCEPT !.dictionaries = HashMapInsert(@, key, DictionaryFrom(dictionary))]

BuilderLanguage(self, language) ==
    [self EXCEPT !.language = language]

BuilderBuild(self) ==
    [language |-> self.language, dictionaries |-> self.dictionaries]

----------------------------------------------------------------------------
\* Localization

LocalizationCreate == BuilderDefault

LocalizationLanguage(self) == self.language

\* Faulty variant: ignores a key that has no dictionary.
SetLanguageIfKnown(self, key) ==
    IF HashMapContains(self.dictionaries, key)
    THEN [self EXCEPT !.language = key]
    ELSE self

\* Faulty variant: creates an empty dictionary for a key that has none.
SetLanguageAddsDictionary(self, key) ==
    [self EXCEPT !.language = key,
                 !.dictionaries = IF HashMapContains(@, key)
                                  THEN @
                                  ELSE HashMapInsert(@, key, [words |-> <<>>])]

LocalizationSetLanguage(self, key) ==
    [self EXCEPT !.language = key]

\* Faulty variant: returns the key where the word was found.
TextReturnsKey(self, key) == key

\* Faulty variant: returns the empty string where nothing was found.
TextEmptyOnMiss(self, key) ==
    IF HashMapContains(self.dictionaries, self.language)
    THEN LET dictionary == self.dictionaries[self.language]
         IN  IF HashMapContains(dictionary.words, key)
             THEN dictionary.words[key]
             ELSE EmptyString
    ELSE EmptyString

\* Faulty variant: without a dictionary for the active language, looks the
\* key up in the dictionaries of the other languages.
TextAnyLanguage(self, key) ==
    IF HashMapContains(self.dictionaries, self.language)
    THEN LET dictionary == self.dictionaries[self.language]
         IN  IF HashMapContains(dictionary.words, key)
             THEN dictionary.words[key]
             ELSE key
    ELSE LET others == {l \in DOMAIN self.dictionaries :
                            HashMapContains(self.dictionaries[l].words, key)}
         IN  IF others = {}
             THEN key
             ELSE self.dictionaries[CHOOSE l \in others : TRUE].words[key]

LocalizationText(self, key) ==
    IF HashMapContains(self.dictionaries, self.language)
    THEN LET dictionary == self.dictionaries[self.language]
         IN  IF HashMapContains(dictionary.words, key)
             THEN dictionary.words[key]
             ELSE key
    ELSE key

\* Variant that selects the language key instead of the blob.
FromPairBuilderSelectsKey(d0, d1) ==
    BuilderLanguage(BuilderDictionary(LocalizationCreate, d0, d1), d0)

\* The builder as the conversions From<(&str, String)>, From<(String, String)>
\* and From<(&str, &str)> leave it just before build().
FromPairBuilder(d0, d1) ==
    BuilderLanguage(BuilderDictionary(LocalizationCreate, d0, d1), d1)

FromPair(d0, d1) == BuilderBuild(FromPairBuilder(d0, d1))

FromBuilder(b) == BuilderBuild(b)

----------------------------------------------------------------------------
\* State

VARIABLES
    pc,        \* "builder" while the builder is being chained, then "built"
    builder,   \* the LocalizationBuilder; after build, what it held when consumed
    loc,       \* the Localization (meaningful once pc = "built")
    calls,     \* the builder calls made so far, in order
    call,      \* the last operation called and its arguments
    ret,       \* what the last operation returned: <<>> for none, or <<value>>
    lastSet,   \* <<>>, or <<key>> of the most recent set_language(key)
    trip       \* a remembered text(key) result and what happened since:
               \*   "first"  text(key) returned result under language
               \*   "away"   then set_language was called once
               \*   "back"   then set_language(language) was called
               \*   "again"  then text(key) was called again

vars == <<pc, builder, loc, calls, call, ret, lastSet, trip>>

Call(op, a, b) == [op |-> op, a |-> a, b |-> b]

NoTrip == [stage |-> "none", language |-> EmptyString, key |-> EmptyString,
           result |-> EmptyString, rep |-> FALSE]

\* rep: text(key) was called again while still in stage "first".
TripAfterText(t, language, key, result) ==
    CASE t.stage \in {"none", "again"} ->
             [stage |-> "first", language |-> language, key |-> key,
              result |-> result, rep |-> FALSE]
      [] t.stage = "first" -> IF key = t.key THEN [t EXCEPT !.rep = TRUE] ELSE t
      [] t.stage = "away" -> t
      [] t.stage = "back" -> IF key = t.key THEN [t EXCEPT !.stage = "again"] ELSE t

TripAfterSetLanguage(t, key) ==
    CASE t.stage = "first" -> [t EXCEPT !.stage = "away", !.rep = FALSE]
      [] t.stage = "away" -> IF key = t.language
                             THEN [t EXCEPT !.stage = "back"]
                             ELSE NoTrip
      [] OTHER -> NoTrip

Init ==
    /\ pc = "builder"
    /\ builder = LocalizationCreate
    /\ loc = BuilderBuild(BuilderDefault)
    /\ calls = <<>>
    /\ call = Call("create", EmptyString, EmptyString)
    /\ ret = <<>>
    /\ lastSet = <<>>
    /\ trip = NoTrip

Dictionary(key, blob) ==
    /\ pc = "builder"
    /\ Len(calls) < MaxCalls
    /\ builder' = BuilderDictionary(builder, key, blob)
    /\ calls' = Append(calls, Call("dictionary", key, blob))
    /\ call' = Call("dictionary", key, blob)
    /\ UNCHANGED <<pc, loc, ret, lastSet, trip>>

Language(language) ==
    /\ pc = "builder"
    /\ Len(calls) < MaxCalls
    /\ builder' = BuilderLanguage(builder, language)
    /\ calls' = Append(calls, Call("language", language, EmptyString))
    /\ call' = Call("language", language, EmptyString)
    /\ UNCHANGED <<pc, loc, ret, lastSet, trip>>

Build ==
    /\ pc = "builder"
    /\ loc' = BuilderBuild(builder)
    /\ pc' = "built"
    /\ call' = Call("build", EmptyString, EmptyString)
    /\ UNCHANGED <<builder, calls, ret, lastSet, trip>>

ConvertBuilder ==
    /\ pc = "builder"
    /\ loc' = FromBuilder(builder)
    /\ pc' = "built"
    /\ call' = Call("from_builder", EmptyString, EmptyString)
    /\ UNCHANGED <<builder, calls, ret, lastSet, trip>>

\* A conversion starts from a fresh builder of its own.
ConvertPair(d0, d1) ==
    /\ pc = "builder"
    /\ calls = <<>>
    /\ builder' = FromPairBuilder(d0, d1)
    /\ calls' = <<Call("dictionary", d0, d1), Call("language", d1, EmptyString)>>
    /\ loc' = FromPair(d0, d1)
    /\ pc' = "built"
    /\ call' = Call("from_pair", d0, d1)
    /\ UNCHANGED <<ret, lastSet, trip>>

GetLanguage ==
    /\ pc = "built"
    /\ ret' = <<LocalizationLanguage(loc)>>
    /\ call' = Call("get_language", EmptyString, EmptyString)
    /\ UNCHANGED <<pc, builder, loc, calls, lastSet, trip>>

SetLanguage(key) ==
    /\ pc = "built"
    /\ loc' = LocalizationSetLanguage(loc, key)
    /\ ret' = <<>>
    /\ call' = Call("set_language", key, EmptyString)
    /\ lastSet' = <<key>>
    /\ trip' = TripAfterSetLanguage(trip, key)
    /\ UNCHANGED <<pc, builder, calls>>

\* Faulty variant: a failed lookup resets the active language.
TextResetsLanguage(key) ==
    /\ pc = "built"
    /\ ret' = <<LocalizationText(loc, key)>>
    /\ call' = Call("text", key, EmptyString)
    /\ trip' = TripAfterText(trip, loc.language, key, LocalizationText(loc, key))
    /\ loc' = IF LocalizationText(loc, key) = key
              THEN [loc EXCEPT !.language = EmptyString]
              ELSE loc
    /\ UNCHANGED <<pc, builder, calls, lastSet>>

Text(key) ==
    /\ pc = "built"
    /\ ret' = <<LocalizationText(loc, key)>>
    /\ call' = Call("text", key, EmptyString)
    /\ trip' = TripAfterText(trip, loc.language, key, LocalizationText(loc, key))
    /\ UNCHANGED <<pc, builder, loc, calls, lastSet>>

Next ==
    \/ \E key \in LanguageKeys, blob \in Blobs : Dictionary(key, blob)
    \/ \E language \in BuilderLanguageArgs : Language(language)
    \/ Build
    \/ ConvertBuilder
    \/ \E d0 \in PairKeys, d1 \in PairBlobs : ConvertPair(d0, d1)
    \/ GetLanguage
    \/ \E key \in SetLanguageArgs : SetLanguage(key)
    \/ \E key \in TextKeys : Text(key)

Spec == Init /\ [][Next]_vars

----------------------------------------------------------------------------
\* Helpers for the properties

HasActiveDictionary == HashMapContains(loc.dictionaries, loc.language)

\* The (key, value) pairs of a dictionary.
Pairs(dictionary) == {<<k, dictionary.words[k]>> : k \in DOMAIN dictionary.words}

\* The builder a chain of builder calls produces.
ApplyCall(b, c) ==
    IF c.op = "dictionary"
    THEN BuilderDictionary(b, c.a, c.b)
    ELSE BuilderLanguage(b, c.a)

RECURSIVE ApplyCalls(_, _)
ApplyCalls(b, cs) ==
    IF cs = <<>> THEN b ELSE ApplyCalls(ApplyCall(b, Head(cs)), Tail(cs))

\* cs with the calls at positions i and i+1 exchanged.
Swap(cs, i) ==
    [n \in 1..Len(cs) |-> IF n = i THEN cs[i + 1] ELSE IF n = i + 1 THEN cs[i] ELSE cs[n]]

\* Two builder calls that do not write the same slot.
Independent(c1, c2) ==
    \/ c1.op # c2.op
    \/ c1.op = "dictionary" /\ c2.op = "dictionary" /\ c1.a # c2.a

\* The positions of the language(...) calls in cs.
LanguageCalls(cs) == {n \in 1..Len(cs) : cs[n].op = "language"}

\* Position j holds the last dictionary(k, ...) call and an earlier one exists.
Overwrites(cs, i, j) ==
    /\ i < j
    /\ cs[i].op = "dictionary" /\ cs[j].op = "dictionary"
    /\ cs[i].a = cs[j].a
    /\ \A m \in (j + 1)..Len(cs) : ~(cs[m].op = "dictionary" /\ cs[m].a = cs[j].a)

----------------------------------------------------------------------------
\* Properties

\* C1: whenever text(key) was called and the dictionary of the active
\* language holds the pair (key, value), the call returned exactly value.
C1_TextReturnsValue ==
    (pc = "built" /\ call.op = "text" /\ HasActiveDictionary) =>
        \A p \in Pairs(loc.dictionaries[loc.language]) :
            p[1] = call.a => ret = <<p[2]>>

C1_Witness ==
    /\ pc = "built" /\ call.op = "text"
    /\ lastSet = <<DE>>
    /\ HasActiveDictionary
    /\ call.a = Str("hello")
    /\ <<Str("hello"), Str("Hallo")>> \in Pairs(loc.dictionaries[loc.language])
    /\ ret = <<Str("Hallo")>>

C3_UnknownLanguageFallsBack ==
    (pc = "built" /\ call.op = "text" /\ lastSet # <<>>
        /\ ~HashMapContains(loc.dictionaries, lastSet[1]))
    => ret = <<call.a>>

\* The key is translated by the dictionary of another language.
C3_Witness ==
    /\ pc = "built" /\ call.op = "text"
    /\ lastSet = <<FR>>
    /\ HashMapContains(loc.dictionaries, DE)
    /\ HashMapContains(loc.dictionaries[DE].words, call.a)
    /\ ret = <<call.a>>

\* C4: where dictionary(k, blob1) was followed by a last dictionary(k, blob2),
\* the built Localization holds under k the parse of blob2, and with k active
\* text resolves the words of blob2 and returns every other key unchanged.
C4_LastDictionaryWins ==
    pc = "built" =>
        \A i, j \in 1..Len(calls) :
            Overwrites(calls, i, j) =>
                LET k == calls[j].a
                    words2 == DictionaryFrom(calls[j].b).words
                    resolved(key) == IF key \in DOMAIN words2 THEN words2[key] ELSE key
                IN  /\ HashMapContains(loc.dictionaries, k)
                    /\ loc.dictionaries[k] = DictionaryFrom(calls[j].b)
                    /\ \A key \in TextKeys :
                           LocalizationText(LocalizationSetLanguage(loc, k), key)
                               = resolved(key)
                    /\ (call.op = "text" /\ loc.language = k)
                           => ret = <<resolved(call.a)>>

\* "world" is a word of the first blob only, and text("world") fell back.
C4_Witness ==
    /\ pc = "built" /\ call.op = "text"
    /\ \E i, j \in 1..Len(calls) :
           /\ Overwrites(calls, i, j)
           /\ calls[i].b = BlobDe /\ calls[j].b = BlobEn
           /\ loc.language = calls[j].a
    /\ call.a = Str("world")
    /\ ret = <<Str("world")>>

\* C5: at every moment after build, dictionaries is what the builder held
\* when it was built: the same language keys and the same words under each.
C5_DictionariesFrozen ==
    pc = "built" =>
        /\ DOMAIN loc.dictionaries = DOMAIN builder.dictionaries
        /\ \A k \in DOMAIN loc.dictionaries :
               loc.dictionaries[k].words = builder.dictionaries[k].words

C5_Witness ==
    /\ pc = "built" /\ call.op = "text"
    /\ lastSet = <<FR>>
    /\ trip.stage = "away"
    /\ DOMAIN loc.dictionaries = {DE, EN}

\* C6: the active language is the argument of the most recent set_language,
\* or the builder's language if set_language was never called, and language()
\* returns it.
C6_LanguageIsLastSet ==
    pc = "built" =>
        LET expected == IF lastSet = <<>> THEN builder.language ELSE lastSet[1]
        IN  /\ loc.language = expected
            /\ call.op = "get_language" => ret = <<expected>>

\* set_language was given a key without a dictionary.
C6_Witness ==
    /\ pc = "built" /\ call.op = "get_language"
    /\ lastSet = <<FR>>
    /\ builder.language = DE
    /\ ~HashMapContains(loc.dictionaries, FR)
    /\ ret = <<FR>>

\* C7: a text(key) call leaves the Localization as it was, and returns what
\* the earlier text(key) returned if set_language was not called in between.
C7_TextIdempotentReadOnly ==
    [][(pc = "built" /\ call'.op = "text") =>
          /\ loc' = loc
          /\ (trip.stage = "first" /\ trip.key = call'.a) => ret' = <<trip.result>>]_vars

C7_Witness ==
    /\ pc = "built" /\ call.op = "text"
    /\ trip.stage = "first" /\ trip.rep
    /\ trip.key = call.a
    /\ trip.result = Str("Hallo")
    /\ ret = <<trip.result>>

\* C8: right after the conversion from (language-key, blob), dictionaries
\* holds the parsed blob under language-key and nothing else, the active
\* language is the blob, and if the blob differs from language-key then
\* text(key) is key for every key.
C8_PairConversionSelectsBlob ==
    (pc = "built" /\ call.op = "from_pair") =>
        /\ DOMAIN loc.dictionaries = {call.a}
        /\ loc.dictionaries[call.a] = DictionaryFrom(call.b)
        /\ LocalizationLanguage(loc) = call.b
        /\ call.a # call.b =>
               \A key \in TextKeys : LocalizationText(loc, key) = key

\* The stored dictionary translates "hello", but text("hello") is "hello".
C8_Witness ==
    /\ pc = "built" /\ call.op = "from_pair"
    /\ call.a = DE /\ call.b = BlobDe
    /\ HashMapContains(loc.dictionaries[DE].words, Str("hello"))
    /\ LocalizationText(loc, Str("hello")) = Str("hello")

\* C9: text(key) under language a, then set_language(b), set_language(a) and
\* text(key) again: the second result is the first.
C9_LanguageRoundTrip ==
    (pc = "built" /\ call.op = "text" /\ trip.stage = "again") =>
        /\ call.a = trip.key
        /\ loc.language = trip.language
        /\ ret = <<trip.result>>

\* The language returned to has no dictionary, the one visited has.
C9_Witness ==
    /\ pc = "built" /\ call.op = "text" /\ trip.stage = "again"
    /\ trip.language = FR
    /\ HashMapContains(loc.dictionaries, DE)
    /\ HashMapContains(loc.dictionaries[DE].words, trip.key)
    /\ ret = <<trip.key>>

\* C10: exchanging two adjacent builder calls that do not write the same slot
\* builds the same Localization, and the built language is the argument of
\* the last language(...) call (the empty string if there was none).
C10_BuilderCallsCommute ==
    /\ \A i \in 1..(Len(calls) - 1) :
           Independent(calls[i], calls[i + 1]) =>
               LET other == BuilderBuild(ApplyCalls(LocalizationCreate, Swap(calls, i)))
               IN  /\ other = BuilderBuild(builder)
                   /\ call.op \in {"build", "from_builder", "from_pair"} => other = loc
    /\ BuilderBuild(builder).language =
           IF LanguageCalls(calls) = {}
           THEN EmptyString
           ELSE calls[CHOOSE n \in LanguageCalls(calls) :
                          \A m \in LanguageCalls(calls) : m <= n].a

\* Two language calls with a dictionary call between them, then build.
C10_Witness ==
    /\ pc = "built" /\ call.op = "build"
    /\ Len(calls) = 3
    /\ calls[1].op = "language" /\ calls[2].op = "dictionary" /\ calls[3].op = "language"
    /\ calls[1].a # calls[3].a
    /\ loc.language = calls[3].a
    /\ HashMapContains(loc.dictionaries, calls[2].a)

====
